---- MODULE Spec2Model ----
(***************************************************************************)
(* Model of blueprint_metrics_cdk: the entry point (bin script) that reads *)
(* four environment variables and constructs BlueprintMetricsCdkStack, the *)
(* stack constructor that declares the resource graph, and the bash        *)
(* packaging script that the Lambda asset's bundling runs.                 *)
(***************************************************************************)
EXTENDS Naturals, Sequences, FiniteSets, TLC

VARIABLES
    pc,           \* position of the synthesis run
    env,          \* process.env restricted to the four variables read
    props,        \* the configuration record handed to the constructor
    secrets,      \* declared secretsmanager.Secret constructs
    roles,        \* declared iam.Role constructs
    functions,    \* declared lambda.Function constructs
    urls,         \* declared function URLs
    rules,        \* declared events.Rule constructs
    outputs,      \* declared cdk.CfnOutput constructs
    shIdx,        \* index of the next element of the and-or list of the script
    shStatus,     \* $? of the bash process running the packaging script
    shOpts,       \* shell options switched on by `set`
    shRan,        \* commands of the script that were executed
    shFailed,     \* commands of the script that returned non-zero
    shExit,       \* exit status of the script once pc has left "bundle"
    assetOutput   \* what /asset-output holds

vars == << pc, env, props, secrets, roles, functions, urls, rules, outputs,
           shIdx, shStatus, shOpts, shRan, shFailed, shExit, assetOutput >>

graphVars == << secrets, roles, functions, urls, rules, outputs >>
shellVars == << shIdx, shStatus, shOpts, shRan, shFailed, shExit, assetOutput >>

-----------------------------------------------------------------------------
(* Bounds *)

\* number of distinct non-empty strings an environment variable may hold
NumValues == 2

-----------------------------------------------------------------------------
(* JavaScript values: a string or undefined *)

JSUndefined == [type |-> "undefined", str |-> ""]
JSString(s) == [type |-> "string", str |-> s]

\* ToBoolean of a string-or-undefined value: undefined and "" are falsy
Truthy(v) == v.type = "string" /\ v.str # ""

\* a || b
JSOr(a, b) == IF Truthy(a) THEN a ELSE b

NonEmptyStrings == { "v" \o ToString(i) : i \in 1..NumValues }
EnvValues == {JSUndefined} \cup { JSString(s) : s \in {""} \cup NonEmptyStrings }

EnvNames == { "DISCORD_WEBHOOK_URL", "GITHUB_TOKEN",
              "GOOGLE_WORKLOADIDENTITY_AUDIENCE",
              "GOOGLE_WORKLOADIDENTITY_SERVICEACCOUNT" }

PropNames == { "discordWebhookUrl", "githubToken",
               "googleWorkloadIdentityAudience",
               "googleWorkloadIdentityServiceAccount" }

NoProps == [ f \in PropNames |-> JSUndefined ]

-----------------------------------------------------------------------------
(* Entry point *)

\* dotenv.config(): every key of the .env file that process.env does not
\* define yet is added; keys already defined are left alone.  An absent key
\* of the file is JSUndefined, `KEY=` is the empty string.
DotenvApply(e, file) ==
    [ k \in EnvNames |->
        IF e[k].type = "undefined" THEN file[k] ELSE e[k] ]

DotenvConfig ==
    /\ pc = "start"
    /\ \E file \in [EnvNames -> EnvValues] : env' = DotenvApply(env, file)
    /\ pc' = "props"
    /\ UNCHANGED << props, graphVars, shellVars >>

\* fault variant of StackProps: the first field read without its `|| ""`
PropsNoDefault(e) ==
    [ discordWebhookUrl |-> e["DISCORD_WEBHOOK_URL"],
      githubToken |-> JSOr(e["GITHUB_TOKEN"], JSString("")),
      googleWorkloadIdentityAudience |->
          JSOr(e["GOOGLE_WORKLOADIDENTITY_AUDIENCE"], JSString("")),
      googleWorkloadIdentityServiceAccount |->
          JSOr(e["GOOGLE_WORKLOADIDENTITY_SERVICEACCOUNT"], JSString("")) ]

\* the object literal passed to new BlueprintMetricsCdkStack(app, id, {...})
StackProps(e) ==
    [ discordWebhookUrl |-> JSOr(e["DISCORD_WEBHOOK_URL"], JSString("")),
      githubToken |-> JSOr(e["GITHUB_TOKEN"], JSString("")),
      googleWorkloadIdentityAudience |->
          JSOr(e["GOOGLE_WORKLOADIDENTITY_AUDIENCE"], JSString("")),
      googleWorkloadIdentityServiceAccount |->
          JSOr(e["GOOGLE_WORKLOADIDENTITY_SERVICEACCOUNT"], JSString("")) ]

ReadProps ==
    /\ pc = "props"
    /\ props' = StackProps(env)
    /\ pc' = "secret"
    /\ UNCHANGED << env, graphVars, shellVars >>

-----------------------------------------------------------------------------
(* Stack constructor: secret container and execution role *)

SecretId == "MetricsConfigSecret"
RoleId == "BlueprintMetricsExecutionRole"
FunctionId == "BlueprintMetricsFunction"
RuleId == "WeeklyMetricsRule"

\* attributes of declared constructs are deploy-time tokens; a token is a
\* non-empty string naming the construct and the attribute
Token(id, attr) == JSString("${Token[" \o id \o "." \o attr \o "]}")

secretArn(id) == Token(id, "Arn")
roleName(id) == Token(id, "RoleName")
functionName(id) == Token(id, "FunctionName")
functionUrl(id) == Token(id, "FunctionUrl")

NewSecret ==
    /\ pc = "secret"
    /\ secrets' = secrets \cup
          { [ id |-> SecretId,
              secretName |-> "blueprint-metrics-config",
              description |-> "Configuration for Blueprint Metrics Lambda" ] }
    /\ pc' = "role"
    /\ UNCHANGED << env, props, roles, functions, urls, rules, outputs, shellVars >>

NewRole ==
    /\ pc = "role"
    /\ roles' = roles \cup
          { [ id |-> RoleId,
              assumedBy |-> "lambda.amazonaws.com",
              roleName |-> "bp-metrics-role",
              managedPolicies |-> {"service-role/AWSLambdaBasicExecutionRole"},
              statements |-> {} ] }
    /\ pc' = "policy"
    /\ UNCHANGED << env, props, secrets, functions, urls, rules, outputs, shellVars >>

\* role.addToPolicy(statement) of the role with the given id
AddStatement(rs, id, st) ==
    { IF r.id = id THEN [r EXCEPT !.statements = @ \cup {st}] ELSE r : r \in rs }

AddToPolicy ==
    /\ pc = "policy"
    /\ roles' = AddStatement(roles, RoleId,
                    [ actions |-> {"sts:GetCallerIdentity"},
                      resources |-> {JSString("*")} ])
    /\ pc' = "bundle"
    /\ UNCHANGED << env, props, secrets, functions, urls, rules, outputs, shellVars >>

-----------------------------------------------------------------------------
(* The packaging script: bash -c "<the six steps joined by ' && '>" *)

\* The joined string is one and-or list.  && and || have equal precedence and
\* associate to the left, so the trailing `|| true` of the last step applies
\* to the whole chain before it:
\*   set && pip && cp && find && find && find || true
Script ==
    << [op |-> "first", cmd |-> "set"],
       [op |-> "&&", cmd |-> "pip"],
       [op |-> "&&", cmd |-> "cp"],
       [op |-> "&&", cmd |-> "find_pycache"],
       [op |-> "&&", cmd |-> "find_pyc"],
       [op |-> "&&", cmd |-> "find_tests"],
       [op |-> "||", cmd |-> "true"] >>

\* whether the command after connector op runs when the list so far left st
Runs(op, st) ==
    \/ op = "first"
    \/ op = "&&" /\ st = 0
    \/ op = "||" /\ st # 0

\* Contents of /asset-output:
\*   deps         the installed requirements, complete
\*   src          *.py and requirements.txt of the lambda directory
\*   __pycache__  a __pycache__ directory (with the bytecode in it)
\*   pyc          a *.pyc file outside any __pycache__ directory
\*   tests        a directory named tests or test
Junk == { "__pycache__", "pyc", "tests" }

\* the outcomes [status, fs] a command can have on file system fs; a failing
\* command may have done any part of its work
CmdResults(cmd, fs) ==
    CASE cmd = "set" -> { [status |-> 0, fs |-> fs] }
      [] cmd = "pip" ->
            { [status |-> 0, fs |-> fs \cup {"deps"} \cup j] : j \in SUBSET Junk }
            \cup { [status |-> 1, fs |-> fs \cup j] : j \in SUBSET Junk }
      [] cmd = "cp" ->
            { [status |-> 0, fs |-> fs \cup {"src"}], [status |-> 1, fs |-> fs] }
      [] cmd = "find_pycache" ->
            { [status |-> 0, fs |-> fs \ {"__pycache__"}],
              [status |-> 1, fs |-> fs \ {"__pycache__"}],
              [status |-> 1, fs |-> fs] }
      [] cmd = "find_pyc" ->
            { [status |-> 0, fs |-> fs \ {"pyc"}],
              [status |-> 1, fs |-> fs \ {"pyc"}],
              [status |-> 1, fs |-> fs] }
      [] cmd = "find_tests" ->
            { [status |-> 0, fs |-> fs \ {"tests"}],
              [status |-> 1, fs |-> fs \ {"tests"}],
              [status |-> 1, fs |-> fs] }
      [] cmd = "true" -> { [status |-> 0, fs |-> fs] }

\* options `set -euo pipefail` switches on
SetOptions(cmd) ==
    IF cmd = "set" THEN {"errexit", "nounset", "pipefail"} ELSE {}

\* errexit ends the shell at a failing command only when the command is not
\* part of an and-or list, or is the one after the list's last && or ||
ErrexitExits(i, st, opts) ==
    "errexit" \in opts /\ st # 0 /\ i = Len(Script)

ShellStep ==
    /\ pc = "bundle"
    /\ shIdx <= Len(Script)
    /\ LET e == Script[shIdx] IN
         IF Runs(e.op, shStatus)
         THEN \E r \in CmdResults(e.cmd, assetOutput) :
                /\ assetOutput' = r.fs
                /\ shStatus' = r.status
                /\ shOpts' = shOpts \cup SetOptions(e.cmd)
                /\ shRan' = shRan \cup {e.cmd}
                /\ shFailed' = IF r.status # 0 THEN shFailed \cup {e.cmd} ELSE shFailed
                /\ shIdx' = IF ErrexitExits(shIdx, r.status, shOpts)
                              THEN Len(Script) + 1 ELSE shIdx + 1
         ELSE /\ shIdx' = shIdx + 1
              /\ UNCHANGED << assetOutput, shStatus, shOpts, shRan, shFailed >>
    /\ UNCHANGED << pc, env, props, graphVars, shExit >>

\* the shell's exit status is the status of the last command executed
ShellExit ==
    /\ pc = "bundle"
    /\ shIdx > Len(Script)
    /\ shExit' = shStatus
    /\ pc' = "function"
    /\ UNCHANGED << env, props, graphVars, shIdx, shStatus, shOpts, shRan,
                    shFailed, assetOutput >>

-----------------------------------------------------------------------------
(* Stack constructor: compute unit, grant, endpoint, schedule, outputs *)

NoRole == "<no role>"
ServiceRoleId == "BlueprintMetricsFunction/ServiceRole"

\* `role: executionRole` of the function's props
RoleProp == RoleId

\* fault variant of Environment: two values under each other's key
EnvironmentSwapped(p) ==
    [ PROD |-> JSString("true"),
      METRICS_CONFIG_SECRET_ARN |-> secretArn(SecretId),
      DISCORD_WEBHOOK_URL |-> p.githubToken,
      GITHUB_TOKEN |-> p.discordWebhookUrl,
      GOOGLE_WORKLOADIDENTITY_AUDIENCE |-> p.googleWorkloadIdentityAudience,
      GOOGLE_WORKLOADIDENTITY_SERVICEACCOUNT |->
          p.googleWorkloadIdentityServiceAccount ]

\* `environment: {...}` of the function's props
Environment(p) ==
    [ PROD |-> JSString("true"),
      METRICS_CONFIG_SECRET_ARN |-> secretArn(SecretId),
      DISCORD_WEBHOOK_URL |-> p.discordWebhookUrl,
      GITHUB_TOKEN |-> p.githubToken,
      GOOGLE_WORKLOADIDENTITY_AUDIENCE |-> p.googleWorkloadIdentityAudience,
      GOOGLE_WORKLOADIDENTITY_SERVICEACCOUNT |->
          p.googleWorkloadIdentityServiceAccount ]

\* a lambda.Function that is given no role declares a service role of its own
OwnRole ==
    [ id |-> ServiceRoleId,
      assumedBy |-> "lambda.amazonaws.com",
      roleName |-> "",
      managedPolicies |-> {"service-role/AWSLambdaBasicExecutionRole"},
      statements |-> {} ]

\* new lambda.Function(...): staging the asset runs the bundling command and
\* throws when the command exits non-zero or leaves /asset-output empty
NewFunction ==
    /\ pc = "function"
    /\ IF shExit # 0 \/ assetOutput = {}
       THEN /\ pc' = "failed"
            /\ UNCHANGED << functions, roles >>
       ELSE /\ functions' = functions \cup
                  { [ id |-> FunctionId,
                      runtime |-> "python3.14",
                      handler |-> "main.handler",
                      role |-> IF RoleProp = NoRole THEN ServiceRoleId ELSE RoleProp,
                      functionName |-> "bp-metrics-fn",
                      code |-> assetOutput,
                      timeoutMinutes |-> 5,
                      memorySize |-> 1024,
                      description |-> "Lambda function for Blueprint Metrics",
                      environment |-> Environment(props) ] }
            /\ roles' = IF RoleProp = NoRole THEN roles \cup {OwnRole} ELSE roles
            /\ pc' = "grant"
    /\ UNCHANGED << env, props, secrets, urls, rules, outputs, shellVars >>

\* the local `fn`
fn == CHOOSE f \in functions : f.id = FunctionId

\* fault variant of GrantPrincipal: the grant goes to a service role of the
\* function's own instead of the role the function was given
GrantPrincipalServiceRole(f) == ServiceRoleId

\* the principal a grant to the function goes to: the function's role
GrantPrincipal(f) == f.role

\* metricsConfigSecret.grantRead(fn)
GrantRead ==
    /\ pc = "grant"
    /\ roles' = AddStatement(roles, GrantPrincipal(fn),
                    [ actions |-> { "secretsmanager:GetSecretValue",
                                    "secretsmanager:DescribeSecret" },
                      resources |-> {secretArn(SecretId)} ])
    /\ pc' = "url"
    /\ UNCHANGED << env, props, secrets, functions, urls, rules, outputs, shellVars >>

\* fault variant of FunctionUrlOptions: every method allowed
FunctionUrlOptionsAnyMethod ==
    [ authType |-> "NONE",
      cors |-> [ allowedOrigins |-> {"*"}, allowedMethods |-> {"*"} ] ]

\* the options of fn.addFunctionUrl({...})
FunctionUrlOptions ==
    [ authType |-> "NONE",
      cors |-> [ allowedOrigins |-> {"*"}, allowedMethods |-> {"POST"} ] ]

AddFunctionUrl ==
    /\ pc = "url"
    /\ urls' = urls \cup
          { [ fn |-> fn.id,
              authType |-> FunctionUrlOptions.authType,
              cors |-> FunctionUrlOptions.cors ] }
    /\ pc' = "rule"
    /\ UNCHANGED << env, props, secrets, roles, functions, rules, outputs, shellVars >>

\* events.Schedule.cron(options): a field left out is "*", except that of
\* day-of-month and day-of-week the one left out is "?" when the other is given
Fallback(v, d) == IF v.type = "undefined" THEN d ELSE v.str

Cron(o) ==
    [ minute |-> Fallback(o.minute, "*"),
      hour |-> Fallback(o.hour, "*"),
      day |-> Fallback(o.day, IF o.weekDay.type = "undefined" THEN "*" ELSE "?"),
      month |-> Fallback(o.month, "*"),
      weekDay |-> Fallback(o.weekDay, "?"),
      year |-> Fallback(o.year, "*") ]

\* fault variant of CronOptions: the hour is given only with an access token
CronOptionsHourFromConfig ==
    [ minute |-> JSString("0"),
      hour |-> IF Truthy(props.githubToken) THEN JSString("19") ELSE JSUndefined,
      day |-> JSUndefined, month |-> JSUndefined,
      weekDay |-> JSString("MON"), year |-> JSUndefined ]

\* the options of events.Schedule.cron({...})
CronOptions ==
    [ minute |-> JSString("0"), hour |-> JSString("19"),
      day |-> JSUndefined, month |-> JSUndefined,
      weekDay |-> JSString("MON"), year |-> JSUndefined ]

NewRule ==
    /\ pc = "rule"
    /\ rules' = rules \cup
          { [ id |-> RuleId,
              schedule |-> Cron(CronOptions),
              targets |-> {fn.id} ] }
    /\ pc' = "out1"
    /\ UNCHANGED << env, props, secrets, roles, functions, urls, outputs, shellVars >>

\* fn.role?.roleName
OptionalRoleName(r) == IF r = NoRole THEN JSUndefined ELSE roleName(r)

\* fault variant of LambdaExecutionRoleNameValue: a configuration value exported
LambdaExecutionRoleNameLeaksToken == JSOr(props.githubToken, JSString(""))

\* fn.role?.roleName || ""
LambdaExecutionRoleNameValue == JSOr(OptionalRoleName(fn.role), JSString(""))

OutputFunctionName ==
    /\ pc = "out1"
    /\ outputs' = outputs \cup
          { [ id |-> "LambdaFunctionName", value |-> functionName(fn.id) ] }
    /\ pc' = "out2"
    /\ UNCHANGED << env, props, secrets, roles, functions, urls, rules, shellVars >>

\* fault variant of OutputRoleName: the output declared only with an access token
OutputRoleNameSkippedWhenNoToken ==
    /\ pc = "out2"
    /\ outputs' = IF Truthy(props.githubToken)
                    THEN outputs \cup { [ id |-> "LambdaExecutionRoleName",
                                          value |-> LambdaExecutionRoleNameValue ] }
                    ELSE outputs
    /\ pc' = "out3"
    /\ UNCHANGED << env, props, secrets, roles, functions, urls, rules, shellVars >>

OutputRoleName ==
    /\ pc = "out2"
    /\ outputs' = outputs \cup
          { [ id |-> "LambdaExecutionRoleName",
              value |-> LambdaExecutionRoleNameValue ] }
    /\ pc' = "out3"
    /\ UNCHANGED << env, props, secrets, roles, functions, urls, rules, shellVars >>

OutputSecretArn ==
    /\ pc = "out3"
    /\ outputs' = outputs \cup
          { [ id |-> "MetricsConfigSecretArn", value |-> secretArn(SecretId) ] }
    /\ pc' = "out4"
    /\ UNCHANGED << env, props, secrets, roles, functions, urls, rules, shellVars >>

OutputFunctionUrl ==
    /\ pc = "out4"
    /\ outputs' = outputs \cup
          { [ id |-> "LambdaFunctionUrl", value |-> functionUrl(fn.id) ] }
    /\ pc' = "done"
    /\ UNCHANGED << env, props, secrets, roles, functions, urls, rules, shellVars >>

-----------------------------------------------------------------------------
(* Specification *)

Init ==
    /\ pc = "start"
    /\ env \in [EnvNames -> EnvValues]
    /\ props = NoProps
    /\ secrets = {} /\ roles = {} /\ functions = {}
    /\ urls = {} /\ rules = {} /\ outputs = {}
    /\ shIdx = 1 /\ shStatus = 0 /\ shOpts = {}
    /\ shRan = {} /\ shFailed = {} /\ shExit = 0
    /\ assetOutput = {}

Next ==
    \/ DotenvConfig
    \/ ReadProps
    \/ NewSecret
    \/ NewRole
    \/ AddToPolicy
    \/ ShellStep
    \/ ShellExit
    \/ NewFunction
    \/ GrantRead
    \/ AddFunctionUrl
    \/ NewRule
    \/ OutputFunctionName
    \/ OutputRoleName
    \/ OutputSecretArn
    \/ OutputFunctionUrl

Spec == Init /\ [][Next]_vars

-----------------------------------------------------------------------------
(* Properties of the packaging script *)

ScriptExited ==
    pc \notin {"start", "props", "secret", "role", "policy", "bundle"}

\* the six chained steps, in order
Steps == << "set", "pip", "cp", "find_pycache", "find_pyc", "find_tests" >>

\* C1: the packaging script is fail-fast: when one of the chained steps other
\* than the final pruning of test directories fails, no later step is executed
\* and the script ends with a non-zero status.
C1_FailFast ==
    ScriptExited =>
        \A i \in 1..5 :
            Steps[i] \in shFailed =>
                /\ \A j \in (i+1)..6 : Steps[j] \notin shRan
                /\ shExit # 0

\* C2: whenever the packaging script ends with status 0, /asset-output holds
\* the installed dependencies and the copied sources, and holds no __pycache__
\* directory, no *.pyc file and no tests or test directory.
C2_SuccessMeansCleanBundle ==
    (ScriptExited /\ shExit = 0) =>
        /\ {"deps", "src"} \subseteq assetOutput
        /\ assetOutput \cap {"__pycache__", "pyc", "tests"} = {}

\* C8: the script silences a failure of its final step only: if the first five
\* steps succeed it ends with status 0 whether or not the pruning of test
\* directories fails, and if one of the first five steps fails it ends with a
\* non-zero status.
C8_OnlyLastStepSilenced ==
    ScriptExited =>
        /\ ( /\ \A i \in 1..5 : Steps[i] \in shRan \ shFailed
             /\ "find_tests" \in shRan )
              => shExit = 0
        /\ (\E i \in 1..5 : Steps[i] \in shFailed) => shExit # 0

-----------------------------------------------------------------------------
(* Properties of the entry point *)

PropsRead == pc \notin {"start", "props"}

\* the field of the configuration record each environment variable feeds
FieldOf ==
    [ DISCORD_WEBHOOK_URL |-> "discordWebhookUrl",
      GITHUB_TOKEN |-> "githubToken",
      GOOGLE_WORKLOADIDENTITY_AUDIENCE |-> "googleWorkloadIdentityAudience",
      GOOGLE_WORKLOADIDENTITY_SERVICEACCOUNT |->
          "googleWorkloadIdentityServiceAccount" ]

\* C3: whatever combination of unset, empty and non-empty values process.env
\* holds for the four variables, every field of the configuration record is a
\* string: the variable's value when it is set and non-empty, the empty string
\* when it is unset, and never undefined.
C3_PropsAreStrings ==
    PropsRead =>
        \A k \in EnvNames :
            /\ props[FieldOf[k]].type = "string"
            /\ Truthy(env[k]) => props[FieldOf[k]] = env[k]
            /\ env[k].type = "undefined" => props[FieldOf[k]] = JSString("")

\* one variable unset, one empty and one non-empty when the record is built
C3_Witness ==
    /\ pc = "secret"
    /\ env["DISCORD_WEBHOOK_URL"].type = "undefined"
    /\ env["GITHUB_TOKEN"] = JSString("")
    /\ Truthy(env["GOOGLE_WORKLOADIDENTITY_AUDIENCE"])
    /\ props.discordWebhookUrl = JSString("")
    /\ props.googleWorkloadIdentityAudience = env["GOOGLE_WORKLOADIDENTITY_AUDIENCE"]

-----------------------------------------------------------------------------
(* Properties of the declared resource graph *)

\* C4: the compute unit's environment has exactly six keys: the four
\* configuration values under their fixed names, the address of the declared
\* secret container, and PROD = "true"; no value sits under another's key.
C4_EnvironmentExact ==
    \A f \in functions :
        /\ DOMAIN f.environment =
              EnvNames \cup {"METRICS_CONFIG_SECRET_ARN", "PROD"}
        /\ \A k \in EnvNames : f.environment[k] = props[FieldOf[k]]
        /\ \E sc \in secrets : f.environment["METRICS_CONFIG_SECRET_ARN"] = secretArn(sc.id)
        /\ f.environment["PROD"] = JSString("true")

\* a finished stack whose configuration values differ between the keys
C4_Witness ==
    /\ pc = "done"
    /\ functions # {}
    /\ props.discordWebhookUrl # props.githubToken
    /\ props.googleWorkloadIdentityAudience # props.googleWorkloadIdentityServiceAccount
    /\ props.githubToken # props.googleWorkloadIdentityAudience
    /\ Truthy(props.discordWebhookUrl)

OutputIds == { o.id : o \in outputs }

\* C5: when the constructor finishes the graph holds exactly one secret
\* container, one role, one compute unit, one endpoint, one schedule rule and
\* four output bindings, whatever the configuration values are.
C5_ResourceCounts ==
    pc = "done" =>
        /\ Cardinality(secrets) = 1
        /\ Cardinality(roles) = 1
        /\ Cardinality(functions) = 1
        /\ Cardinality(urls) = 1
        /\ Cardinality(rules) = 1
        /\ Cardinality(outputs) = 4
        /\ Cardinality(OutputIds) = 4

\* a finished stack built from an all-empty configuration record
C5_Witness ==
    /\ pc = "done"
    /\ \A f \in PropNames : props[f] = JSString("")
    /\ Cardinality(outputs) = 4

\* C6: the invocation endpoint declared for the compute unit has
\* authentication type NONE and allows exactly the method POST.
C6_EndpointPostNoAuth ==
    /\ \A u \in urls :
          /\ u.fn = FunctionId
          /\ u.authType = "NONE"
          /\ u.cors.allowedMethods = {"POST"}
    /\ pc = "done" => urls # {}

C6_Witness ==
    /\ pc = "done"
    /\ \E u \in urls : u.fn = FunctionId /\ "POST" \in u.cors.allowedMethods
    /\ \E f \in PropNames : Truthy(props[f])

\* C7: the single schedule rule fires at minute 0, hour 19 on Monday, its only
\* target is the declared compute unit, and none of it depends on the
\* configuration.
C7_WeeklySchedule ==
    /\ \A r \in rules :
          /\ r.schedule = [ minute |-> "0", hour |-> "19", day |-> "?",
                            month |-> "*", weekDay |-> "MON", year |-> "*" ]
          /\ r.targets = { f.id : f \in functions }
          /\ r.targets = {FunctionId}
    /\ pc = "done" => Cardinality(rules) = 1

\* finished stacks with an empty access token, the configuration a schedule
\* derived from it would differ for
C7_Witness ==
    /\ pc = "done"
    /\ rules # {}
    /\ ~Truthy(props.githubToken)
    /\ Truthy(props.discordWebhookUrl)

\* the read grants: [role, statement] pairs allowing secretsmanager:GetSecretValue
ReadGrants ==
    { g \in UNION { { [role |-> r.id, st |-> st] : st \in r.statements } : r \in roles } :
        "secretsmanager:GetSecretValue" \in g.st.actions }

\* C9: when the constructor finishes, the read grant on the secret container
\* is held by the role the compute unit executes as, which is the declared
\* execution role, and the secret it covers is the one whose address the
\* compute unit receives as METRICS_CONFIG_SECRET_ARN and the
\* MetricsConfigSecretArn output exports.
C9_GrantWiring ==
    pc = "done" =>
        /\ ReadGrants # {}
        /\ \A g \in ReadGrants : \A f \in functions : \A sc \in secrets :
              /\ g.role = f.role
              /\ g.role = RoleId
              /\ g.st.resources = {secretArn(sc.id)}
              /\ f.environment["METRICS_CONFIG_SECRET_ARN"] = secretArn(sc.id)
              /\ \E o \in outputs :
                    o.id = "MetricsConfigSecretArn" /\ o.value = secretArn(sc.id)

C9_Witness ==
    /\ pc = "done"
    /\ \E g \in ReadGrants : g.role = RoleId
    /\ functions # {} /\ secrets # {}
    /\ \E o \in outputs : o.id = "MetricsConfigSecretArn"

\* the graph with the four configuration entries of the environment blanked
Redacted(f) ==
    [ f EXCEPT !.environment =
        [ k \in DOMAIN f.environment |->
            IF k \in EnvNames THEN JSString("<redacted>") ELSE f.environment[k] ] ]

\* the declared graph without the configuration entries and without the
\* content of the asset, which is the packaging script's doing and not the
\* configuration's
PublicGraph ==
    [ secrets |-> secrets,
      roles |-> roles,
      functions |-> { [ Redacted(f) EXCEPT !.code = {} ] : f \in functions },
      urls |-> urls,
      rules |-> rules,
      outputs |-> outputs ]

\* C10: two configuration records that differ in any of the four values give
\* graphs that are identical except for the four corresponding environment
\* entries; the four outputs have the same values in both, and
\* LambdaExecutionRoleName is the declared role's name, not the "" fallback.
\* Stated on one run: the finished graph without the four entries is one fixed
\* value, in which no configuration value occurs.
C10_Noninterference ==
    pc = "done" =>
        /\ PublicGraph.outputs =
              { [ id |-> "LambdaFunctionName",
                  value |-> JSString("${Token[BlueprintMetricsFunction.FunctionName]}") ],
                [ id |-> "LambdaExecutionRoleName",
                  value |-> JSString("${Token[BlueprintMetricsExecutionRole.RoleName]}") ],
                [ id |-> "MetricsConfigSecretArn",
                  value |-> JSString("${Token[MetricsConfigSecret.Arn]}") ],
                [ id |-> "LambdaFunctionUrl",
                  value |-> JSString("${Token[BlueprintMetricsFunction.FunctionUrl]}") ] }
        /\ PublicGraph.secrets =
              { [ id |-> "MetricsConfigSecret",
                  secretName |-> "blueprint-metrics-config",
                  description |-> "Configuration for Blueprint Metrics Lambda" ] }
        /\ PublicGraph.roles =
              { [ id |-> "BlueprintMetricsExecutionRole",
                  assumedBy |-> "lambda.amazonaws.com",
                  roleName |-> "bp-metrics-role",
                  managedPolicies |-> {"service-role/AWSLambdaBasicExecutionRole"},
                  statements |->
                    { [ actions |-> {"sts:GetCallerIdentity"},
                        resources |-> {JSString("*")} ],
                      [ actions |-> { "secretsmanager:GetSecretValue",
                                      "secretsmanager:DescribeSecret" },
                        resources |-> {JSString("${Token[MetricsConfigSecret.Arn]}")} ] } ] }
        /\ PublicGraph.functions =
              { [ id |-> "BlueprintMetricsFunction",
                  runtime |-> "python3.14",
                  handler |-> "main.handler",
                  role |-> "BlueprintMetricsExecutionRole",
                  functionName |-> "bp-metrics-fn",
                  code |-> {},
                  timeoutMinutes |-> 5,
                  memorySize |-> 1024,
                  description |-> "Lambda function for Blueprint Metrics",
                  environment |->
                    [ PROD |-> JSString("true"),
                      METRICS_CONFIG_SECRET_ARN |->
                          JSString("${Token[MetricsConfigSecret.Arn]}"),
                      DISCORD_WEBHOOK_URL |-> JSString("<redacted>"),
                      GITHUB_TOKEN |-> JSString("<redacted>"),
                      GOOGLE_WORKLOADIDENTITY_AUDIENCE |-> JSString("<redacted>"),
                      GOOGLE_WORKLOADIDENTITY_SERVICEACCOUNT |->
                          JSString("<redacted>") ] ] }
        /\ PublicGraph.urls =
              { [ fn |-> "BlueprintMetricsFunction",
                  authType |-> "NONE",
                  cors |-> [ allowedOrigins |-> {"*"}, allowedMethods |-> {"POST"} ] ] }
        /\ PublicGraph.rules =
              { [ id |-> "WeeklyMetricsRule",
                  schedule |-> [ minute |-> "0", hour |-> "19", day |-> "?",
                                 month |-> "*", weekDay |-> "MON", year |-> "*" ],
                  targets |-> {"BlueprintMetricsFunction"} ] }

\* a finished stack whose configuration holds a non-empty access token and a
\* non-empty webhook address that differ
C10_Witness ==
    /\ pc = "done"
    /\ Truthy(props.githubToken)
    /\ Truthy(props.discordWebhookUrl)
    /\ props.githubToken # props.discordWebhookUrl
    /\ Cardinality(outputs) = 4

====
